---- MODULE Spec2Model ----
(***************************************************************************)
(* Login round trip and session lifecycle of solid-client-authn-webext.    *)
(*                                                                         *)
(* One Session object with its ClientAuthentication, the login handler     *)
(* WebAuthFlowOidcHandler, the Redirector whose afterRedirect callback is   *)
(* Session.redirectCallback, the storage collaborator, the host capability *)
(* browser.identity.launchWebAuthFlow and the session's event bus.         *)
(* A step of the model is one call from outside or one completion of a     *)
(* collaborator call (storage, host capability, redirect handler, logout   *)
(* handler), together with the promise reactions that completion triggers: *)
(* these run to the next suspension before any other completion is         *)
(* delivered.  Calls on the same Session interleave at the suspensions.    *)
(***************************************************************************)
EXTENDS Integers, Sequences, FiniteSets, TLC

\* ---------------------------------------------------------------- bounds
\* at most MaxOps operations (logins, handle calls, redirects, logouts and
\* event emissions that start a logout) are started in one behaviour
MaxOps == 3
\* at most MaxLogins of them are login attempts
MaxLogins == 2

\* ------------------------------------------------------------ value sets
\* optional fields: 0 stands for undefined
Undefined == 0

\* the session id given to / generated by the Session constructor
InitialSessionId == 1
\* a session id reported by the redirect handler that differs from it
OtherSessionId == 2
\* uuid v4() of the j-th unauthenticated session info (always fresh)
FreshSessionId(j) == OtherSessionId + j

Prompts == {"undefined", "none"}
\* with one prompt value other than "none"
LoginPrompts == {"undefined", "none", "login"}
RedirectUrls == {"undefined", "malformed", "valid"}
GrantTypes == {"undefined", "implicit_only", "authorization_code"}
\* one value of each kind the login path tells apart
LoginRedirectUrls == {"undefined", "valid"}
\* every kind of redirect URL isValidRedirectUrl tells apart: none, not a
\* URL, with a hash fragment, with the query parameter code or state, and
\* one that has none of these defects
CheckedRedirectUrls ==
  {"undefined", "malformed", "hash_fragment", "reserved_code",
   "reserved_state", "valid"}
LoginGrantTypes == {"implicit_only", "authorization_code"}

\* login({clientId}): no token type, no client name
PlainOptions ==
  [tokenType |-> "undefined", clientName |-> "undefined",
   clientId |-> "coolApp"]

\* the other options of Session.login that the login path looks at: each
\* token type, and a client name present and absent, with and without a
\* client id
LoginOptions ==
  { PlainOptions,
    [tokenType |-> "Bearer", clientName |-> "Cool App Name",
     clientId |-> "coolApp"],
    [tokenType |-> "DPoP", clientName |-> "Cool App Name",
     clientId |-> "undefined"],
    [tokenType |-> "undefined", clientName |-> "undefined",
     clientId |-> "undefined"] }

\* session infos a redirect handler resolves with (Session.spec.ts fixtures:
\* logged in with all fields, logged out, logged in with the mandatory fields)
ResultInfos ==
  { [isLoggedIn |-> TRUE, sessionId |-> OtherSessionId, webId |-> 1,
     clientAppId |-> 1, expirationDate |-> 5000],
    [isLoggedIn |-> FALSE, sessionId |-> OtherSessionId, webId |-> Undefined,
     clientAppId |-> 1, expirationDate |-> Undefined],
    [isLoggedIn |-> TRUE, sessionId |-> InitialSessionId, webId |-> Undefined,
     clientAppId |-> Undefined, expirationDate |-> Undefined] }

\* Date.now() at the emissions of SESSION_EXTENDED, in milliseconds, and the
\* expiresIn values emitted, in seconds
Times == {1, 2}
ExpiresIn == {1, 2}
MillisPerSecond == 1000

\* what browser.identity.getRedirectURL() returns: the callback URL of this
\* extension instance, which no caller-supplied value stands for
HostRedirectUrl == "host"

\* placeholder of a result that does not exist (yet), and the value
\* undefined where a session info is expected
NoInfo ==
  [isLoggedIn |-> FALSE, sessionId |-> Undefined, webId |-> Undefined,
   clientAppId |-> Undefined, expirationDate |-> Undefined]

\* what a redirect handler may resolve with inside the login handler: a
\* session info that is logged in, one that is not, or nothing at all
HandlerResults ==
  {r \in ResultInfos : r.sessionId = OtherSessionId} \cup {NoInfo}

\* getUnauthenticatedSession(): not logged in, a fresh uuid, nothing else
getUnauthenticatedSession(j) ==
  [isLoggedIn |-> FALSE, sessionId |-> FreshSessionId(j), webId |-> Undefined,
   clientAppId |-> Undefined, expirationDate |-> Undefined]

VARIABLES
  info,          \* Session.info
  sessionFetch,  \* Session.fetch: "delegate" (to ClientAuthentication.fetch)
                 \* or "bound" (the fetch of the redirect info, bound to window)
  caFetch,       \* ClientAuthentication.fetch: "unauthenticated" or "authenticated"
  extListeners,  \* number of SESSION_EXTENDED listeners the Session registered
  loginSlot,     \* login call whose resolve/reject Session.resolveLogin and
                 \* Session.rejectLogin hold (0: the initial no-op functions)
  logins,        \* login attempts: Session.login calls and direct handle calls
  redirects,     \* Redirector.redirect calls
  logouts,       \* ClientAuthentication.logout calls made by internalLogout
  userData,      \* storage: session id -> attempt whose codeVerifier is stored
  stateData,     \* storage: attempt (its state value) -> mapped session id
  storedData,    \* storage: session ids that have other stored keys (such as
                 \* the data of a registered client), which setForUser keeps
  emitted,       \* what has been emitted on the Session's event bus, and
                 \* what the LOGIN listeners saw of the Session (loginSeen)
  rhCalls,       \* calls of the redirect handler's canHandle and handle made on
                 \* their own
  ctor           \* the arguments the Session was constructed with

vars == <<info, sessionFetch, caFetch, extListeners, loginSlot, logins,
          redirects, logouts, userData, stateData, storedData, emitted,
          rhCalls, ctor>>

Ops ==
  Len(logins) + Len(redirects) + Len(logouts) + Len(rhCalls)
  + emitted.SESSION_EXTENDED

SessionIds == Undefined .. (OtherSessionId + MaxOps + 1)
Attempts == 1 .. (MaxOps + 1)

\* ----------------------------------------------------------- Session.ts
\* sessionOptions.sessionInfo: left out, or an ISessionInfo
NoSessionInfo ==
  [given |-> FALSE, isLoggedIn |-> FALSE, sessionId |-> Undefined,
   webId |-> Undefined, clientAppId |-> Undefined]

SessionInfoOptions ==
  {NoSessionInfo} \cup
  [given : {TRUE}, isLoggedIn : BOOLEAN,
   sessionId : {InitialSessionId, OtherSessionId},
   webId : {Undefined, 1}, clientAppId : {Undefined, 1}]

\* the constructor's arguments: sessionOptions.sessionInfo and sessionId
\* (Undefined when left out)
CtorArgs ==
  [sessionInfo : SessionInfoOptions,
   sessionId : {Undefined, InitialSessionId, OtherSessionId}]

\* new Session() / new Session({}): nothing given
NoCtorArgs == [sessionInfo |-> NoSessionInfo, sessionId |-> Undefined]

\* a constructor that keeps the login status it is given
SessionConstructor_KeepStatus(sessionInfo, sessionId, generated) ==
  IF sessionInfo.given
  THEN [isLoggedIn |-> sessionInfo.isLoggedIn,
        sessionId |-> sessionInfo.sessionId,
        webId |-> sessionInfo.webId, clientAppId |-> sessionInfo.clientAppId,
        expirationDate |-> Undefined]
  ELSE [isLoggedIn |-> FALSE,
        sessionId |-> IF sessionId # Undefined THEN sessionId ELSE generated,
        webId |-> Undefined, clientAppId |-> Undefined,
        expirationDate |-> Undefined]

\* Session.constructor, this.info: from sessionInfo when it is given, with
\* isLoggedIn false; else sessionId ?? v4() (generated), isLoggedIn false
SessionConstructor(sessionInfo, sessionId, generated) ==
  IF sessionInfo.given
  THEN [isLoggedIn |-> FALSE,
        sessionId |-> sessionInfo.sessionId,
        webId |-> sessionInfo.webId, clientAppId |-> sessionInfo.clientAppId,
        expirationDate |-> Undefined]
  ELSE [isLoggedIn |-> FALSE,
        sessionId |-> IF sessionId # Undefined THEN sessionId ELSE generated,
        webId |-> Undefined, clientAppId |-> Undefined,
        expirationDate |-> Undefined]

\* new Session(): isLoggedIn false, the generated session id
NewSessionInfo ==
  SessionConstructor(NoCtorArgs.sessionInfo, NoCtorArgs.sessionId,
                     InitialSessionId)

Init ==
  /\ info = NewSessionInfo
  /\ sessionFetch = "delegate"
  /\ caFetch = "unauthenticated"
  /\ extListeners = 0
  /\ loginSlot = 0
  /\ logins = << >>
  /\ redirects = << >>
  /\ logouts = << >>
  /\ userData = [s \in SessionIds |-> 0]
  /\ stateData = [k \in Attempts |-> Undefined]
  /\ storedData = {InitialSessionId}
  /\ rhCalls = << >>
  /\ ctor = NoCtorArgs
  /\ emitted = [LOGIN |-> 0, loginSeen |-> {}, LOGOUT |-> 0,
                SESSION_EXPIRED |-> 0, ERROR |-> 0, errorTags |-> {},
                SESSION_EXTENDED |-> 0, extendedAt |-> 0, extendedBy |-> 0]


\* new Session(sessionOptions, sessionId) in place of the Session not yet
\* used: its info, with fresh collaborators
NewSession(args) ==
  /\ Ops = 0
  /\ ctor' = args
  /\ info' = SessionConstructor(args.sessionInfo, args.sessionId,
                                InitialSessionId)
  /\ UNCHANGED <<sessionFetch, caFetch, extListeners, loginSlot, logins,
                 redirects, logouts, userData, stateData, storedData, emitted,
                 rhCalls>>

\* setSessionInfo: copies the five fields one by one
setSessionInfo(cur, sessionInfo) ==
  [cur EXCEPT !.isLoggedIn = sessionInfo.isLoggedIn,
              !.webId = sessionInfo.webId,
              !.sessionId = sessionInfo.sessionId,
              !.clientAppId = sessionInfo.clientAppId,
              !.expirationDate = sessionInfo.expirationDate]

\* callback URLs by their query: with or without code, and with the state
\* value of a login attempt or without state (0)
CallbackUrls == [code : BOOLEAN, state : 0..MaxLogins]

\* the argument of launchWebAuthFlow before there is a call
NoLaunch == [url |-> "none", interactive |-> FALSE]

\* the URL fields of an attempt that has no URL yet
NoUrl == [code |-> FALSE, state |-> 0]

\* ------------------------------------------------ login attempt records
\* an attempt is under way until its promise chain has settled and the
\* storage writes it started have settled
UnderWay(a) ==
  \/ a.pc \notin {"resolved", "rejected"}
  \/ a.w1 = "pending"
  \/ a.w2 = "pending"

\* no attempt on the session id sid is under way
startsAlone(sid) ==
  \A k \in 1..Len(logins) : logins[k].sid = sid => ~UnderWay(logins[k])

\* pc: "clear" (awaiting sessionInfoManager.clear), "persist" (awaiting both
\* setForUser), "flow" (awaiting launchWebAuthFlow), "exchange" (awaiting
\* redirectHandler.handle), "resolved", "rejected".
\* promise: the promise Session.login returned ("none" for a direct handle call)
\* clear: the call of sessionInfoManager.clear ("none", "pending", "done",
\* "failed"); herr: the error loginHandler.handle rejected with
\* launches: the number of launchWebAuthFlow calls, launchArgs: the argument
\* of the last one
\* flow: the outcome of launchWebAuthFlow ("none", "ok", "failed"), flowUrl
\* the URL it yielded when ok; rh: redirectHandler.handle was called, with
\* rhUrl
\* opts: the options the caller gave; tokenType and bus: the token type and
\* the event bus ClientAuthentication.login was given; clientName: the one
\* the login handler was given; reqPrompt: the prompt of the authorization
\* request ("unset" for what was not given or built yet)
NewAttempt(entry, sid, prompt, url) ==
  [entry |-> entry, sid |-> sid, prompt |-> prompt, redirectUrl |-> url,
   grant |-> "unknown", pc |-> "new", err |-> "none",
   clear |-> "none", herr |-> "none",
   launchArgs |-> NoLaunch,
   flow |-> "none", flowUrl |-> NoUrl, rhUrl |-> NoUrl,
   opts |-> PlainOptions, tokenType |-> "unset", bus |-> "unset",
   clientName |-> "unset", reqPrompt |-> "unset",
   w1 |-> "none", w2 |-> "none", launches |-> 0, rh |-> FALSE,
   result |-> NoInfo, returned |-> NoInfo,
   promise |-> IF entry = "session" THEN "pending" ELSE "none",
   perr |-> "none"]

\* the attempt's promise chain rejects with error e; for a Session.login call
\* the rejection reaches .catch((err) => reject(err)), which rejects the
\* promise of that very call if it is still pending
Fail(a, e) ==
  [a EXCEPT !.pc = "rejected",
            !.err = e,
            !.promise = IF a.promise = "pending" THEN "rejected" ELSE a.promise,
            !.perr = IF a.promise = "pending" THEN e ELSE a.perr]

\* a login that replaces the error of the call it awaits by one of its own
loginRethrows_Wrapped(e) == "LoginFailure"

\* ClientAuthentication.login awaits clear and loginHandler.handle without
\* a catch: what they reject with is what login rejects with
loginRethrows(e) == e

\* handle rejects with e; when ClientAuthentication.login called it, login
\* rejects in turn
handleRejects(a, e) ==
  Fail([a EXCEPT !.herr = e],
       IF a.entry = "session" THEN loginRethrows(e) ELSE e)

\* ------------------------------------------- WebAuthFlowOidcHandler.ts
\* the guard without its redirect URL test
parametersGuard_NoUrlTest(a) ==
  /\ a.grant # "undefined"
  /\ a.grant = "authorization_code"

parametersGuard(a) ==
  /\ a.grant # "undefined"
  /\ a.grant = "authorization_code"
  /\ a.redirectUrl # "undefined"

\* a request that always asks for consent
requestPrompt_AlwaysConsent(prompt) == "consent"

\* getOidcClient: prompt: oidcLoginOptions.prompt ?? "consent"
requestPrompt(prompt) == IF prompt = "undefined" THEN "consent" ELSE prompt

\* handle up to the two setForUser calls: the guard, then the signin request
\* with the state and code verifier of this attempt (getOidcClient and
\* createSigninRequest touch nothing that is shared), then Promise.all
handleEntry(a) ==
  IF ~parametersGuard(a)
  THEN handleRejects(a, "InvalidRequest")
  ELSE [a EXCEPT !.pc = "persist", !.w1 = "pending", !.w2 = "pending",
                 !.reqPrompt = requestPrompt(a.prompt)]

\* Promise.race in place of Promise.all: one fulfilled write is enough
CanLaunch_Race(a) == a.w1 = "done" \/ a.w2 = "done"

\* Promise.all([...]).then(launchWebAuthFlow): both writes are fulfilled
CanLaunch(a) == a.w1 = "done" /\ a.w2 = "done"

\* browser.identity.launchWebAuthFlow({url: targetUrl, interactive: true}),
\* the reaction to Promise.all
launchWhenPersisted(a) ==
  IF a.pc = "persist" /\ CanLaunch(a)
  THEN [a EXCEPT !.pc = "flow", !.launches = a.launches + 1,
                 !.launchArgs = [url |-> "targetUrl", interactive |-> TRUE]]
  ELSE a

\* a rejected write rejects Promise.all, if nothing has rejected it yet
rejectWhenPersisting(a) ==
  IF a.pc = "persist" THEN handleRejects(a, "StorageFailure") ELSE a

\* --------------------------------------------- ClientAuthentication.ts
\* a test that lets hash fragments through
isValidRedirectUrl_HashAllowed(u) == u \in {"valid", "hash_fragment"}

\* isValidRedirectUrl of the core library: a well-formed IRI without hash
\* fragment and without the reserved query parameters
isValidRedirectUrl(u) == u = "valid"

\* a login that hands the client name over as it got it
resolveClientName_NoFallback(clientName, clientId) == clientName

\* clientName: options.clientName ?? options.clientId
resolveClientName(clientName, clientId) ==
  IF clientName # "undefined" THEN clientName ELSE clientId

\* login, after the optional clear: the redirect URL check, then
\* loginHandler.handle, which gets the issuer configuration (grant types g)
\* and calls WebAuthFlowOidcHandler.handle
loginAfterClear(a, g) ==
  IF a.redirectUrl = "undefined" \/ ~isValidRedirectUrl(a.redirectUrl)
  THEN Fail(a, "InvalidRedirectUrl")
  ELSE handleEntry([a EXCEPT
         !.grant = g,
         !.clientName = resolveClientName(a.opts.clientName,
                                          a.opts.clientId)])

\* login that clears whatever the prompt is
loginEntry_AlwaysClear(a, g) ==
  [a EXCEPT !.pc = "clear", !.clear = "pending"]

\* login from its call on
loginEntry(a, g) ==
  IF a.prompt # "none"
  THEN [a EXCEPT !.pc = "clear", !.clear = "pending"]
  ELSE loginAfterClear(a, g)

NumLogins == Len(logins)

\* a Session that asks for DPoP tokens whatever the caller asks for
defaultTokenType_AlwaysDPoP(tokenType) == "DPoP"

\* tokenType: options.tokenType ?? "DPoP"
defaultTokenType(tokenType) ==
  IF tokenType = "undefined" THEN "DPoP" ELSE tokenType

\* the call clientAuthentication.login({sessionId: this.info.sessionId,
\* ...options, tokenType}, this.events) for the options p (prompt), u
\* (redirectUrl) and o (the others)
loginCall(p, u, o) ==
  [NewAttempt("session", info.sessionId, p, u) EXCEPT
     !.opts = o,
     !.tokenType = defaultTokenType(o.tokenType),
     !.bus = "Session.events"]

\* Session.login(options): a new promise whose resolve and reject replace
\* resolveLogin and rejectLogin, then ClientAuthentication.login is called
SessionLogin(p, u, g, o) ==
  /\ Ops < MaxOps
  /\ NumLogins < MaxLogins
  /\ logins' = Append(logins, loginEntry(loginCall(p, u, o), g))
  /\ loginSlot' = Len(logins) + 1
  /\ UNCHANGED <<info, sessionFetch, caFetch, extListeners, redirects,
                 logouts, userData, stateData, storedData, emitted,
                 rhCalls, ctor>>

\* sessionInfoManager.clear(options.sessionId) settles
ClearReturn(k, ok, g) ==
  /\ k \in 1..Len(logins)
  /\ logins[k].pc = "clear"
  /\ IF ok
     THEN /\ userData' = [userData EXCEPT ![logins[k].sid] = 0]
          /\ storedData' = storedData \ {logins[k].sid}
          /\ logins' = [logins EXCEPT ![k] =
                loginAfterClear([logins[k] EXCEPT !.clear = "done"], g)]
     ELSE /\ userData' = userData
          /\ storedData' = storedData
          /\ logins' = [logins EXCEPT ![k] =
                Fail([logins[k] EXCEPT !.clear = "failed"],
                     loginRethrows("ClearFailed"))]
  /\ UNCHANGED <<info, sessionFetch, caFetch, extListeners, loginSlot,
                 redirects, logouts, stateData, emitted,
                 rhCalls, ctor>>

\* WebAuthFlowOidcHandler.handle(oidcLoginOptions) called on its own, for
\* the session id sid
HandleCall(sid, u, g) ==
  /\ Ops < MaxOps
  /\ NumLogins < MaxLogins
  /\ logins' = Append(logins,
        handleEntry([NewAttempt("handle", sid, "undefined", u)
                       EXCEPT !.grant = g]))
  /\ UNCHANGED <<info, sessionFetch, caFetch, extListeners, loginSlot,
                 redirects, logouts, userData, stateData, storedData, emitted,
                 rhCalls, ctor>>

\* setForUser(state, {sessionId}) settles
WriteState(k, ok) ==
  /\ k \in 1..Len(logins)
  /\ logins[k].w1 = "pending"
  /\ IF ok
     THEN /\ stateData' = [stateData EXCEPT ![k] = logins[k].sid]
          /\ logins' = [logins EXCEPT ![k] =
                          launchWhenPersisted([logins[k] EXCEPT !.w1 = "done"])]
     ELSE /\ stateData' = stateData
          /\ logins' = [logins EXCEPT ![k] =
                          rejectWhenPersisting([logins[k] EXCEPT !.w1 = "failed"])]
  /\ UNCHANGED <<info, sessionFetch, caFetch, extListeners, loginSlot,
                 redirects, logouts, userData, storedData, emitted, rhCalls, ctor>>

\* a write that leaves the record of a login already under way in place
persistUserRecord_KeepFirst(data, sid, k) ==
  IF data[sid] # 0 THEN data ELSE [data EXCEPT ![sid] = k]

\* the per-session record after handle's second setForUser: the code
\* verifier of attempt k, written without looking at what is stored
persistUserRecord(data, sid, k) == [data EXCEPT ![sid] = k]

\* setForUser(sessionId, {codeVerifier, issuer, redirectUrl, dpop, keepAlive})
\* settles
WriteUser(k, ok) ==
  /\ k \in 1..Len(logins)
  /\ logins[k].w2 = "pending"
  /\ IF ok
     THEN /\ userData' = persistUserRecord(userData, logins[k].sid, k)
          /\ logins' = [logins EXCEPT ![k] =
                          launchWhenPersisted([logins[k] EXCEPT !.w2 = "done"])]
     ELSE /\ userData' = userData
          /\ logins' = [logins EXCEPT ![k] =
                          rejectWhenPersisting([logins[k] EXCEPT !.w2 = "failed"])]
  /\ UNCHANGED <<info, sessionFetch, caFetch, extListeners, loginSlot,
                 redirects, logouts, stateData, storedData, emitted,
                 rhCalls, ctor>>

\* a handler that launches the flow once more when it has failed once
flowFailed_Retry(a) ==
  IF a.launches < 2
  THEN [a EXCEPT !.launches = a.launches + 1]
  ELSE handleRejects([a EXCEPT !.flow = "failed"], "HostFlowFailure")

\* launchWebAuthFlow rejects: no callback of the chain handles it, handle
\* rejects with the same error
flowFailed(a) ==
  handleRejects([a EXCEPT !.flow = "failed"], "HostFlowFailure")

\* a handler that takes the URL it gets for one with a code
redirectHandlerArgument_CodeAssumed(url) == [url EXCEPT !.code = TRUE]

\* .then((url) => this.redirectHandler.handle(url, undefined, undefined))
redirectHandlerArgument(url) == url

\* launchWebAuthFlow settles, on success with the URL the flow ended at:
\* redirectHandler.handle is called with it; on failure handle rejects
FlowReturn(k, ok, url) ==
  /\ k \in 1..Len(logins)
  /\ logins[k].pc = "flow"
  /\ logins' = [logins EXCEPT ![k] =
        IF ok
        THEN [logins[k] EXCEPT !.pc = "exchange", !.flow = "ok",
                               !.flowUrl = url, !.rh = TRUE,
                               !.rhUrl = redirectHandlerArgument(url)]
        ELSE flowFailed(logins[k])]
  /\ UNCHANGED <<info, sessionFetch, caFetch, extListeners, loginSlot,
                 redirects, logouts, userData, stateData, storedData, emitted,
                 rhCalls, ctor>>

\* what ClientAuthentication.login resolves with when loginHandler.handle
\* has resolved with r: the awaited value is dropped and the async function
\* ends, so the promise (Promise<void>) resolves with undefined
loginResult(r) == NoInfo

\* redirectHandler.handle resolves with r: handle resolves with r, and
\* ClientAuthentication.login resolves; Session.login attached only a catch
\* to it.  returned is what the called function (login, or handle when it
\* was called directly) resolved with
HandleResolve(k, r) ==
  /\ k \in 1..Len(logins)
  /\ logins[k].pc = "exchange"
  /\ logins' = [logins EXCEPT
        ![k].pc = "resolved",
        ![k].result = r,
        ![k].returned = IF logins[k].entry = "session"
                        THEN loginResult(r) ELSE r]
  /\ UNCHANGED <<info, sessionFetch, caFetch, extListeners, loginSlot,
                 redirects, logouts, userData, stateData, storedData, emitted,
                 rhCalls, ctor>>

\* redirectHandler.handle rejects
HandleReject(k) ==
  /\ k \in 1..Len(logins)
  /\ logins[k].pc = "exchange"
  /\ logins' = [logins EXCEPT ![k] =
        handleRejects(logins[k], "RedirectHandlingFailure")]
  /\ UNCHANGED <<info, sessionFetch, caFetch, extListeners, loginSlot,
                 redirects, logouts, userData, stateData, storedData, emitted,
                 rhCalls, ctor>>

\* ----------------------------------------------------------- Session.ts
\* resolveLogin() called whether or not there is an error
settleLogin_IgnoreError(ls, slot, error) ==
  IF slot = 0 \/ ls[slot].promise # "pending"
  THEN ls
  ELSE [ls EXCEPT ![slot].promise = "fulfilled"]

\* resolveLogin() / rejectLogin(error): settle the promise of the login call
\* in loginSlot, if there is one and it is still pending
settleLogin(ls, slot, error) ==
  IF slot = 0 \/ ls[slot].promise # "pending"
  THEN ls
  ELSE IF error # "none"
       THEN [ls EXCEPT ![slot].promise = "rejected", ![slot].perr = error]
       ELSE [ls EXCEPT ![slot].promise = "fulfilled"]

\* LOGIN emitted before this.fetch is assigned
loginListenerView_EmitFirst(newInfo, oldFetch) ==
  [isLoggedIn |-> newInfo.isLoggedIn, fetch |-> oldFetch]

\* what a LOGIN listener sees of the Session: emit(LOGIN) is the last
\* statement of redirectCallback, after setSessionInfo and after this.fetch
\* has become the fetch of the redirect info
loginListenerView(newInfo, oldFetch) ==
  [isLoggedIn |-> newInfo.isLoggedIn, fetch |-> "bound"]

\* Session.redirectCallback(redirectInfo, error), called as afterRedirect
redirectCallback(redirectInfo, error) ==
  /\ info' = setSessionInfo(info, redirectInfo)
  /\ extListeners' = extListeners + (IF redirectInfo.isLoggedIn THEN 1 ELSE 0)
  /\ logins' = settleLogin(logins, loginSlot, error)
  /\ IF redirectInfo.isLoggedIn
     THEN /\ sessionFetch' = "bound"
          /\ emitted' = [emitted EXCEPT
                !.LOGIN = emitted.LOGIN + 1,
                !.loginSeen = @ \cup
                  {loginListenerView(setSessionInfo(info, redirectInfo),
                                     sessionFetch)}]
     ELSE UNCHANGED <<sessionFetch, emitted>>

\* ------------------------------------------------------- Redirector.ts
\* redirect records: pc "flow" (awaiting launchWebAuthFlow), "exchange"
\* (awaiting redirectHandler.handle), "thrown" (afterRedirect threw inside
\* the then-callback, the catch reaction is queued), "done"; calls is the
\* number of afterRedirect calls

\* redirect(redirectUrl): launchWebAuthFlow is invoked at once
RedirectorRedirect ==
  /\ Ops < MaxOps
  /\ redirects' = Append(redirects,
        [pc |-> "flow", calls |-> 0])
  /\ UNCHANGED <<info, sessionFetch, caFetch, extListeners, loginSlot,
                 logins, logouts, userData, stateData, storedData, emitted,
                 rhCalls, ctor>>

\* this.afterRedirect(sessionInfo, error); the chain is then at pc next
afterRedirect(j, sessionInfo, error, next) ==
  /\ redirectCallback(sessionInfo, error)
  /\ redirects' = [redirects EXCEPT ![j] =
        [pc |-> next, calls |-> redirects[j].calls + 1]]
  /\ UNCHANGED <<caFetch, loginSlot, logouts, userData, stateData, storedData,
                 rhCalls, ctor>>

\* launchWebAuthFlow settles; on success redirectHandler.handle(url) is
\* called, on failure the catch calls afterRedirect
RedirectorFlowReturn(j, ok) ==
  /\ j \in 1..Len(redirects)
  /\ redirects[j].pc = "flow"
  /\ IF ok
     THEN /\ redirects' = [redirects EXCEPT ![j].pc = "exchange"]
          /\ UNCHANGED <<info, sessionFetch, caFetch, extListeners, loginSlot,
                         logins, logouts, userData, stateData, storedData, emitted,
                 rhCalls, ctor>>
     ELSE afterRedirect(j, getUnauthenticatedSession(j), "HostFlowFailure",
                        "done")

\* redirectHandler.handle resolves with r: .then((sessionInfo) =>
\* this.afterRedirect(sessionInfo)).  The callback emits LOGIN when r is
\* logged in; emit runs the listeners synchronously, and a listener that
\* throws makes the callback, hence the then-callback, throw after the
\* callback's effects
RedirectorHandleResolve(j, r, listenerThrows) ==
  /\ j \in 1..Len(redirects)
  /\ redirects[j].pc = "exchange"
  /\ listenerThrows => r.isLoggedIn
  /\ afterRedirect(j, r, "none", IF listenerThrows THEN "thrown" ELSE "done")

\* the .catch at the end of the chain also receives what the then-callback
\* threw: afterRedirect(getUnauthenticatedSession(), error)
RedirectorCatchThrown(j) ==
  /\ j \in 1..Len(redirects)
  /\ redirects[j].pc = "thrown"
  /\ afterRedirect(j, getUnauthenticatedSession(j), "ListenerFailure", "done")

\* redirectHandler.handle rejects
RedirectorHandleReject(j) ==
  /\ j \in 1..Len(redirects)
  /\ redirects[j].pc = "exchange"
  /\ afterRedirect(j, getUnauthenticatedSession(j), "RedirectHandlingFailure",
                   "done")

\* ----------------------------------------------------------- Session.ts
\* the listeners calling internalLogout(true)
ListenerEmitSignal_True == TRUE

\* the emitSignal argument of the listeners the constructor registers for
\* SESSION_EXPIRED and ERROR
ListenerEmitSignal == FALSE

\* internalLogout(emitSignal), up to its await:
\* clientAuthentication.logout(this.info.sessionId) is called.  The record
\* keeps the moment of the call: before is the number of redirects issued
\* so far, seen the number of LOGIN events emitted so far
internalLogout(emitSignal) ==
  logouts' = Append(logouts,
      [emit |-> emitSignal, sid |-> info.sessionId, pc |-> "handler",
       handler |-> "pending", before |-> Len(redirects),
       seen |-> emitted.LOGIN])

\* Session.logout()
SessionLogout ==
  /\ Ops < MaxOps
  /\ internalLogout(TRUE)
  /\ UNCHANGED <<info, sessionFetch, caFetch, extListeners, loginSlot,
                 logins, redirects, userData, stateData, storedData, emitted,
                 rhCalls, ctor>>

\* SESSION_EXPIRED is emitted on the session's event bus
EmitSessionExpired ==
  /\ Ops < MaxOps
  /\ emitted' = [emitted EXCEPT !.SESSION_EXPIRED = emitted.SESSION_EXPIRED + 1]
  /\ internalLogout(ListenerEmitSignal)
  /\ UNCHANGED <<info, sessionFetch, caFetch, extListeners, loginSlot,
                 logins, redirects, userData, stateData, storedData,
                 rhCalls, ctor>>

\* ERROR(tag, error) is emitted on the session's event bus by a collaborator
EmitError(tag) ==
  /\ Ops < MaxOps
  /\ emitted' = [emitted EXCEPT !.ERROR = emitted.ERROR + 1,
                                !.errorTags = emitted.errorTags \cup {tag}]
  /\ internalLogout(ListenerEmitSignal)
  /\ UNCHANGED <<info, sessionFetch, caFetch, extListeners, loginSlot,
                 logins, redirects, userData, stateData, storedData,
                 rhCalls, ctor>>

\* a listener that only ever moves the expiration date forward
extendedExpiration_OnlyLater(old, t, expiresIn) ==
  IF t + expiresIn * MillisPerSecond > old
  THEN t + expiresIn * MillisPerSecond
  ELSE old

\* the SESSION_EXTENDED listener of setSessionInfo:
\* this.info.expirationDate = Date.now() + expiresIn * 1000
extendedExpiration(old, t, expiresIn) == t + expiresIn * MillisPerSecond

\* a Session that listens for SESSION_EXTENDED from its construction on
sessionExtendedHeard_Always(registered) == TRUE

\* emit(SESSION_EXTENDED) reaches the Session only through the listeners
\* setSessionInfo has registered: the constructor registers none for it
sessionExtendedHeard(registered) == registered > 0

\* SESSION_EXTENDED(expiresIn) is emitted on the session's event bus at
\* time t: every listener setSessionInfo has registered runs, or none when
\* there is none
EmitSessionExtended(expiresIn, t) ==
  /\ Ops < MaxOps
  /\ t >= emitted.extendedAt
  /\ emitted' = [emitted EXCEPT !.SESSION_EXTENDED = @ + 1,
                                !.extendedAt = t,
                                !.extendedBy = expiresIn]
  /\ info' = IF sessionExtendedHeard(extListeners)
             THEN [info EXCEPT !.expirationDate =
                                 extendedExpiration(@, t, expiresIn)]
             ELSE info
  /\ UNCHANGED <<sessionFetch, caFetch, extListeners, loginSlot, logins,
                 redirects, logouts, userData, stateData, storedData,
                 rhCalls, ctor>>

\* internalLogout emitting LOGOUT only when the session was logged in
internalLogoutResume_OnlyIfLoggedIn(i) ==
  /\ info' = [info EXCEPT !.isLoggedIn = FALSE]
  /\ sessionFetch' = "delegate"
  /\ emitted' = IF logouts[i].emit /\ info.isLoggedIn
                THEN [emitted EXCEPT !.LOGOUT = emitted.LOGOUT + 1]
                ELSE emitted
  /\ logouts' = [logouts EXCEPT ![i].pc = "done", ![i].handler = "ok"]

\* internalLogout after its await
internalLogoutResume(i) ==
  /\ info' = [info EXCEPT !.isLoggedIn = FALSE]
  /\ sessionFetch' = "delegate"
  /\ emitted' = IF logouts[i].emit
                THEN [emitted EXCEPT !.LOGOUT = emitted.LOGOUT + 1]
                ELSE emitted
  /\ logouts' = [logouts EXCEPT ![i].pc = "done", ![i].handler = "ok"]

\* internalLogout reporting the failure of the logout as an ERROR event,
\* which the Session's own listener answers with another logout
internalLogoutThrow_EmitsError(i) ==
  /\ logouts' = Append([logouts EXCEPT ![i].pc = "failed",
                                        ![i].handler = "failed"],
                       [emit |-> FALSE, sid |-> info.sessionId,
                        pc |-> "handler", handler |-> "pending",
                        before |-> Len(redirects), seen |-> emitted.LOGIN])
  /\ emitted' = [emitted EXCEPT !.ERROR = emitted.ERROR + 1,
                                !.errorTags = emitted.errorTags \cup {"logout"}]
  /\ UNCHANGED <<info, sessionFetch>>

\* internalLogout catching the failure of the logout and carrying on
internalLogoutThrow_Caught(i) ==
  /\ info' = [info EXCEPT !.isLoggedIn = FALSE]
  /\ sessionFetch' = "delegate"
  /\ emitted' = IF logouts[i].emit
                THEN [emitted EXCEPT !.LOGOUT = emitted.LOGOUT + 1]
                ELSE emitted
  /\ logouts' = [logouts EXCEPT ![i].pc = "done", ![i].handler = "failed"]

\* internalLogout when its await throws: nothing after the await runs and
\* the promise of internalLogout, which Session.logout returns, rejects
internalLogoutThrow(i) ==
  /\ logouts' = [logouts EXCEPT ![i].pc = "failed", ![i].handler = "failed"]
  /\ UNCHANGED <<info, sessionFetch, emitted>>

\* ClientAuthentication.logout: the logout handler settles.  On success the
\* session's stored data is gone, fetch is the unauthenticated one again and
\* internalLogout resumes; on failure the rejection leaves internalLogout
LogoutHandlerReturn(i, ok) ==
  /\ i \in 1..Len(logouts)
  /\ logouts[i].pc = "handler"
  /\ IF ok
     THEN /\ userData' = [userData EXCEPT ![logouts[i].sid] = 0]
          /\ storedData' = storedData \ {logouts[i].sid}
          /\ caFetch' = "unauthenticated"
          /\ internalLogoutResume(i)
     ELSE /\ internalLogoutThrow(i)
          /\ UNCHANGED <<userData, storedData, caFetch>>
  /\ UNCHANGED <<extListeners, loginSlot, logins, redirects, stateData,
                 rhCalls, ctor>>

\* ------------------------------------ redirect handler (collaborator)
\* a guard that looks for the code only
canHandle_CodeOnly(url) == url.code

\* canHandle(url): the URL carries both code and state
canHandle(url) == url.code /\ url.state # 0

\* a call record: pc "lookup" (reading the persisted session of the state),
\* "token" (awaiting the token endpoint), "resolved", "rejected"; reads
\* counts the storage reads, token tells that the token endpoint was called;
\* sid is the session the call found for the state, verifier the attempt
\* whose code verifier it read
NewRhCall(op, url) ==
  [op |-> op, url |-> url, pc |-> "resolved", out |-> FALSE, err |-> "none",
   reads |-> 0, token |-> FALSE, sid |-> Undefined, verifier |-> 0]

\* a handler that takes every callback to belong to the initial session
sessionOfState_Initial(state, data) ==
  IF data[state] = Undefined THEN Undefined ELSE InitialSessionId

\* the session a callback belongs to: what the login attempt persisted
\* under the state value, Undefined when nothing is persisted under it
sessionOfState(state, data) == data[state]

\* canHandle(url) called on its own
RedirectHandlerCanHandle(url) ==
  /\ Ops < MaxOps
  /\ rhCalls' = Append(rhCalls,
        [NewRhCall("canHandle", url) EXCEPT !.out = canHandle(url)])
  /\ UNCHANGED <<info, sessionFetch, caFetch, extListeners, loginSlot, logins,
                 redirects, logouts, userData, stateData, storedData, emitted, ctor>>

\* handle(url) called on its own: rejects at once when it cannot handle the
\* URL, else starts reading the session persisted for the state
RedirectHandlerHandle(url) ==
  /\ Ops < MaxOps
  /\ rhCalls' = Append(rhCalls,
        IF ~canHandle(url)
        THEN [NewRhCall("handle", url) EXCEPT
                !.pc = "rejected", !.err = "MissingParameters"]
        ELSE [NewRhCall("handle", url) EXCEPT !.pc = "lookup", !.reads = 1])
  /\ UNCHANGED <<info, sessionFetch, caFetch, extListeners, loginSlot, logins,
                 redirects, logouts, userData, stateData, storedData, emitted, ctor>>

\* the storage read settles: without a session persisted for the state the
\* call rejects, else the code is sent to the token endpoint with the stored
\* code verifier
RedirectHandlerLookupReturn(c) ==
  /\ c \in 1..Len(rhCalls)
  /\ rhCalls[c].pc = "lookup"
  /\ LET sid == sessionOfState(rhCalls[c].url.state, stateData)
     IN rhCalls' = [rhCalls EXCEPT ![c] =
          IF sid = Undefined \/ userData[sid] = 0
          THEN [@ EXCEPT !.pc = "rejected", !.err = "NoMatchingSession"]
          ELSE [@ EXCEPT !.pc = "token", !.token = TRUE, !.sid = sid,
                         !.verifier = userData[sid]]]
  /\ UNCHANGED <<info, sessionFetch, caFetch, extListeners, loginSlot, logins,
                 redirects, logouts, userData, stateData, storedData, emitted, ctor>>

\* the token endpoint answers
RedirectHandlerTokenReturn(c, ok) ==
  /\ c \in 1..Len(rhCalls)
  /\ rhCalls[c].pc = "token"
  /\ rhCalls' = [rhCalls EXCEPT ![c] =
        IF ok THEN [@ EXCEPT !.pc = "resolved", !.out = TRUE]
        ELSE [@ EXCEPT !.pc = "rejected", !.err = "TokenEndpointFailure"]]
  /\ UNCHANGED <<info, sessionFetch, caFetch, extListeners, loginSlot, logins,
                 redirects, logouts, userData, stateData, storedData, emitted, ctor>>

\* ------------------------------------------------------- specification
\* The whole system around one Session.  The storage writes of a login
\* succeed here, a flow that succeeds ends at the callback URL with the code
\* and the state of its attempt, and no LOGIN listener throws; SpecHandle covers the handler
\* with failing writes, SpecExtend the Session with listeners that throw.
Next ==
  \/ \E p \in Prompts, u \in LoginRedirectUrls, g \in LoginGrantTypes :
        SessionLogin(p, u, g, PlainOptions)
  \/ \E k \in 1..MaxOps, ok \in BOOLEAN, g \in LoginGrantTypes :
        ClearReturn(k, ok, g)
  \/ \E k \in 1..MaxOps : WriteState(k, TRUE)
  \/ \E k \in 1..MaxOps : WriteUser(k, TRUE)
  \/ \E k \in 1..MaxLogins, ok \in BOOLEAN :
        FlowReturn(k, ok, [code |-> TRUE, state |-> k])
  \/ \E k \in 1..MaxOps, r \in HandlerResults : HandleResolve(k, r)
  \/ \E k \in 1..MaxOps : HandleReject(k)
  \/ RedirectorRedirect
  \/ \E j \in 1..MaxOps, ok \in BOOLEAN : RedirectorFlowReturn(j, ok)
  \/ \E j \in 1..MaxOps, r \in ResultInfos :
        RedirectorHandleResolve(j, r, FALSE)
  \/ \E j \in 1..MaxOps : RedirectorHandleReject(j)
  \/ SessionLogout
  \/ EmitSessionExpired
  \/ EmitError("error")
  \/ \E i \in 1..MaxOps, ok \in BOOLEAN : LogoutHandlerReturn(i, ok)

Spec == Init /\ [][Next]_vars

\* WebAuthFlowOidcHandler on its own: handle is called directly, as its unit
\* tests do, with every combination of redirect URL and grant types; each
\* storage write may fail, and a flow that succeeds ends at a callback URL
\* with the state of its attempt, with or without a code
NextHandle ==
  \/ \E u \in RedirectUrls, g \in GrantTypes :
        HandleCall(InitialSessionId, u, g)
  \/ \E k \in 1..MaxOps, ok \in BOOLEAN : WriteState(k, ok)
  \/ \E k \in 1..MaxOps, ok \in BOOLEAN : WriteUser(k, ok)
  \/ \E k \in 1..MaxLogins, ok \in BOOLEAN, code \in BOOLEAN :
        FlowReturn(k, ok, [code |-> code, state |-> k])
  \/ \E k \in 1..MaxOps, r \in HandlerResults : HandleResolve(k, r)
  \/ \E k \in 1..MaxOps : HandleReject(k)

SpecHandle == Init /\ [][NextHandle]_vars

\* the redirect handler on its own, called with every kind of callback URL,
\* next to login handlers that pass their guard and persist the state of
\* their attempts, for either of two session ids
NextRedirect ==
  \/ \E sid \in {InitialSessionId, OtherSessionId} :
        HandleCall(sid, "valid", "authorization_code")
  \/ \E k \in 1..MaxOps, ok \in BOOLEAN : WriteState(k, ok)
  \/ \E k \in 1..MaxOps, ok \in BOOLEAN : WriteUser(k, ok)
  \/ \E url \in CallbackUrls : RedirectHandlerCanHandle(url)
  \/ \E url \in CallbackUrls : RedirectHandlerHandle(url)
  \/ \E c \in 1..MaxOps : RedirectHandlerLookupReturn(c)
  \/ \E c \in 1..MaxOps, ok \in BOOLEAN : RedirectHandlerTokenReturn(c, ok)

SpecRedirect == Init /\ [][NextRedirect]_vars

\* Sessions constructed with every kind of arguments, then logged out
NextConstruct ==
  \/ \E args \in CtorArgs : NewSession(args)
  \/ SessionLogout
  \/ \E i \in 1..MaxOps, ok \in BOOLEAN : LogoutHandlerReturn(i, ok)

SpecConstruct == Init /\ [][NextConstruct]_vars

\* the Session between redirect callbacks, logouts and event emissions,
\* SESSION_EXTENDED among them, with LOGIN listeners that may throw
NextExtend ==
  \/ RedirectorRedirect
  \/ \E j \in 1..MaxOps, ok \in BOOLEAN : RedirectorFlowReturn(j, ok)
  \/ \E j \in 1..MaxOps, r \in ResultInfos, t \in BOOLEAN :
        RedirectorHandleResolve(j, r, t)
  \/ \E j \in 1..MaxOps : RedirectorCatchThrown(j)
  \/ \E j \in 1..MaxOps : RedirectorHandleReject(j)
  \/ SessionLogout
  \/ EmitSessionExpired
  \/ EmitError("error")
  \/ \E i \in 1..MaxOps, ok \in BOOLEAN : LogoutHandlerReturn(i, ok)
  \/ \E n \in ExpiresIn, t \in Times : EmitSessionExtended(n, t)

SpecExtend == Init /\ [][NextExtend]_vars

\* Session.login with every combination of token type, client name, client
\* id and prompt, on Sessions constructed with and without a session id,
\* as far as the authorization request
NextOptions ==
  \/ \E sid \in {Undefined, OtherSessionId} :
        NewSession([sessionInfo |-> NoSessionInfo, sessionId |-> sid])
  \/ \E p \in LoginPrompts, u \in LoginRedirectUrls, o \in LoginOptions :
        SessionLogin(p, u, "authorization_code", o)
  \/ \E k \in 1..MaxOps, ok \in BOOLEAN :
        ClearReturn(k, ok, "authorization_code")

SpecOptions == Init /\ [][NextOptions]_vars

\* ClientAuthentication.login, reached through Session.login, with every
\* kind of redirect URL, with and without the clear that precedes the test
NextUrl ==
  \/ \E p \in Prompts, u \in CheckedRedirectUrls :
        SessionLogin(p, u, "authorization_code", PlainOptions)
  \/ \E k \in 1..MaxOps, ok \in BOOLEAN :
        ClearReturn(k, ok, "authorization_code")

SpecUrl == Init /\ [][NextUrl]_vars

\* every collaborator call that was started settles: storage (clear and the
\* two setForUser), the host capability and the redirect handler, in the
\* login handler and in the Redirector
Settles ==
  \/ \E k \in 1..MaxOps, ok \in BOOLEAN, g \in LoginGrantTypes :
        ClearReturn(k, ok, g)
  \/ \E k \in 1..MaxOps : WriteState(k, TRUE)
  \/ \E k \in 1..MaxOps : WriteUser(k, TRUE)
  \/ \E k \in 1..MaxLogins, ok \in BOOLEAN :
        FlowReturn(k, ok, [code |-> TRUE, state |-> k])
  \/ \E k \in 1..MaxOps, r \in HandlerResults : HandleResolve(k, r)
  \/ \E k \in 1..MaxOps : HandleReject(k)
  \/ \E j \in 1..MaxOps, ok \in BOOLEAN : RedirectorFlowReturn(j, ok)
  \/ \E j \in 1..MaxOps, r \in ResultInfos :
        RedirectorHandleResolve(j, r, FALSE)
  \/ \E j \in 1..MaxOps : RedirectorHandleReject(j)
  \/ \E i \in 1..MaxOps, ok \in BOOLEAN : LogoutHandlerReturn(i, ok)

\* the same system, in which no started collaborator call stays unsettled
\* for ever; calls from outside (login, logout, redirect, emissions) are
\* under no obligation to happen
SpecFair == Init /\ [][Next]_vars /\ WF_vars(Settles)

TypeOK ==
  /\ info.sessionId \in SessionIds
  /\ sessionFetch \in {"delegate", "bound"}
  /\ caFetch \in {"unauthenticated", "authenticated"}
  /\ loginSlot \in 0..Len(logins)
  /\ Ops <= MaxOps

\* ================================================================ claims

\* a Session.login call whose ClientAuthentication.login round trip resolves
\* in this step, the redirect handler having produced logins'[k].result
LoginResolves(k) ==
  /\ logins[k].entry = "session"
  /\ logins[k].pc = "exchange"
  /\ logins'[k].pc = "resolved"

\* a Session.login call whose ClientAuthentication.login rejects in this step
LoginRejects(k) ==
  /\ logins'[k].entry = "session"
  /\ logins'[k].pc = "rejected"
  /\ (k > Len(logins) \/ logins[k].pc # "rejected")

\* the promise of login call k is fulfilled in this step
LoginFulfilled(k) ==
  /\ logins[k].promise = "pending"
  /\ logins'[k].promise = "fulfilled"

\* the logout call i completes in this step
LogoutCompletes(i) ==
  /\ logouts[i].pc = "handler"
  /\ logouts'[i].pc = "done"

\* C1: when the login round trip of a Session.login call resolves with a
\* session info R that is logged in, the promise of that call is fulfilled,
\* Session.info equals R and LOGIN is emitted once.
C1_LoginResolvedLoggedIn ==
  [][\A k \in 1..Len(logins) :
       (LoginResolves(k) /\ logins'[k].result.isLoggedIn)
       => /\ logins'[k].promise = "fulfilled"
          /\ info' = logins'[k].result
          /\ emitted'.LOGIN = emitted.LOGIN + 1]_vars

\* C2: when ClientAuthentication.login rejects with E, the promise of
\* Session.login rejects with E, isLoggedIn is false afterwards and
\* ERROR("login", E) is emitted.
C2_LoginRejected ==
  [][\A k \in 1..Len(logins') :
       LoginRejects(k)
       => /\ logins'[k].promise = "rejected"
          /\ logins'[k].perr = logins'[k].err
          /\ ~info'.isLoggedIn
          /\ "login" \in emitted'.errorTags]_vars

\* C3: when the login round trip resolves with a session info that is not
\* logged in, the promise of Session.login is fulfilled, isLoggedIn is false
\* afterwards and no LOGIN is emitted.
C3_LoginResolvedLoggedOut ==
  [][\A k \in 1..Len(logins) :
       (/\ LoginResolves(k)
        /\ logins'[k].result \in ResultInfos
        /\ ~logins'[k].result.isLoggedIn)
       => /\ logins'[k].promise = "fulfilled"
          /\ ~info'.isLoggedIn
          /\ emitted'.LOGIN = emitted.LOGIN]_vars

C5_LogoutEmitsAndLogsOut ==
  /\ [](emitted.LOGOUT =
          Cardinality({i \in 1..Len(logouts) :
                         logouts[i].emit /\ logouts[i].pc = "done"}))
  /\ [][\A i \in 1..Len(logouts) :
          (LogoutCompletes(i) /\ logouts[i].emit)
          => /\ ~info'.isLoggedIn
             /\ emitted'.LOGOUT = emitted.LOGOUT + 1]_vars

\* two Session.logout() calls completed on a session that had logged in
C5_Witness ==
  /\ Len(logouts) = 2
  /\ \A i \in 1..2 : logouts[i].emit /\ logouts[i].pc = "done"
  /\ emitted.LOGIN = 1
  /\ emitted.LOGOUT = 2
  /\ ~info.isLoggedIn

\* C6: each emission of SESSION_EXPIRED or ERROR makes exactly one
\* ClientAuthentication.logout call for the session's id; when that logout
\* completes isLoggedIn is false and no LOGOUT is emitted.
C6_AutoLogoutSilent ==
  [][/\ (emitted'.SESSION_EXPIRED + emitted'.ERROR
           = emitted.SESSION_EXPIRED + emitted.ERROR + 1)
        => /\ Len(logouts') = Len(logouts) + 1
           /\ logouts'[Len(logouts')] =
                [emit |-> FALSE, sid |-> info.sessionId, pc |-> "handler",
                 handler |-> "pending", before |-> Len(redirects),
                 seen |-> emitted.LOGIN]
     /\ (emitted'.SESSION_EXPIRED + emitted'.ERROR
           = emitted.SESSION_EXPIRED + emitted.ERROR)
        => \/ Len(logouts') = Len(logouts)
           \/ logouts'[Len(logouts')].emit
     /\ \A i \in 1..Len(logouts) :
          (LogoutCompletes(i) /\ ~logouts[i].emit)
          => /\ ~info'.isLoggedIn
             /\ emitted'.LOGOUT = emitted.LOGOUT]_vars

\* SESSION_EXPIRED on a logged-in session: one logout, done, no LOGOUT
C6_Witness ==
  /\ emitted.SESSION_EXPIRED = 1
  /\ emitted.LOGIN = 1
  /\ Len(logouts) = 1 /\ logouts[1].pc = "done" /\ ~logouts[1].emit
  /\ logouts[1].sid = OtherSessionId
  /\ ~info.isLoggedIn
  /\ emitted.LOGOUT = 0

\* C7: in every reachable state Session.fetch delegates to
\* ClientAuthentication.fetch.
C7_FetchAlwaysDelegates == sessionFetch = "delegate"

\* C8: ClientAuthentication.fetch is the authenticated fetch after a
\* successful login, and the unauthenticated pass-through initially and
\* after every logout.
C8_FetchFollowsLastOperation ==
  /\ (Ops = 0 => caFetch = "unauthenticated")
  /\ [][/\ \A k \in 1..Len(logins) :
             LoginResolves(k) => caFetch' = "authenticated"
        /\ \A i \in 1..Len(logouts) :
             LogoutCompletes(i) => caFetch' = "unauthenticated"]_vars

\* the precondition of handle fails for the options of attempt a
PreconditionFails(a) ==
  \/ a.grant \in {"undefined", "implicit_only"}
  \/ a.redirectUrl = "undefined"

\* C9: both storage writes of a handle call have completed before
\* launchWebAuthFlow is invoked (and it is invoked at most once).
C9_PersistedBeforeLaunch ==
  \A k \in 1..Len(logins) :
    logins[k].launches > 0
    => /\ logins[k].w1 = "done" /\ logins[k].w2 = "done"
       /\ stateData[k] = logins[k].sid
       /\ userData[logins[k].sid] # 0
       /\ logins[k].launches = 1

\* the host capability has been invoked for an attempt
C9_Witness ==
  \E k \in 1..Len(logins) : logins[k].pc = "flow" /\ logins[k].launches = 1

\* C10: handle rejects when the grant types are undefined or lack
\* authorization_code or the redirect URL is undefined, and then nothing
\* was written, the host capability and the redirect handler were not invoked.
C10_GuardBeforeSideEffects ==
  \A k \in 1..Len(logins) :
    PreconditionFails(logins[k])
    => /\ logins[k].pc = "rejected"
       /\ logins[k].err = "InvalidRequest"
       /\ logins[k].w1 = "none" /\ logins[k].w2 = "none"
       /\ stateData[k] = Undefined
       /\ userData[logins[k].sid] # k
       /\ logins[k].launches = 0
       /\ ~logins[k].rh

\* a call without redirect URL was rejected while another call went through
C10_Witness ==
  /\ \E k \in 1..Len(logins) :
       /\ logins[k].redirectUrl = "undefined"
       /\ logins[k].grant = "authorization_code"
       /\ logins[k].pc = "rejected"
  /\ \E k \in 1..Len(logins) : logins[k].launches = 1

\* C11: for every Redirector.redirect call afterRedirect is invoked exactly
\* once: never more than once, once when the chain has settled, and with an
\* unauthenticated session info when an error is passed.
C11_AfterRedirectExactlyOnce ==
  [][\A j \in 1..Len(redirects') :
       /\ redirects'[j].calls <= 1
       /\ redirects'[j].pc = "done" => redirects'[j].calls = 1
       /\ (j <= Len(redirects) /\ redirects'[j].calls > redirects[j].calls)
          => \/ redirects[j].pc = "exchange" /\ info' \in ResultInfos
             \/ ~info'.isLoggedIn /\ info'.sessionId = FreshSessionId(j)]_vars

\* C12: every promise returned by Session.login is eventually fulfilled or
\* rejected when the collaborator calls that were started settle, also when
\* a second Session.login is issued before the first has settled.
C12_LoginEventuallySettles ==
  \A k \in 1..MaxLogins :
    (Len(logins) >= k /\ logins[k].promise = "pending")
      ~> (Len(logins) >= k /\ logins[k].promise # "pending")

\* the login handler is invoked for attempt k in this step
HandlerInvoked(k) ==
  /\ logins'[k].grant # "unknown"
  /\ (k > Len(logins) \/ logins[k].grant = "unknown")

\* C13: ClientAuthentication.login calls clear for options.sessionId, and
\* the session's stored state is gone before the login handler is invoked,
\* exactly when prompt is not "none"; with prompt "none" clear is never
\* called and no step of that login removes stored data of the session.
C13_ClearUnlessPromptNone ==
  [][\A k \in 1..Len(logins') :
       logins'[k].entry = "session"
       => /\ logins'[k].pc = "clear" => logins'[k].prompt # "none"
          /\ (k > Len(logins) /\ logins'[k].prompt # "none")
             => logins'[k].pc = "clear" /\ logins'[k].grant = "unknown"
          /\ (HandlerInvoked(k) /\ logins'[k].prompt # "none")
             => /\ k <= Len(logins) /\ logins[k].pc = "clear"
                /\ userData'[logins'[k].sid] = 0
                /\ logins'[k].sid \notin storedData'
          /\ (logins'[k].prompt = "none"
              /\ (k > Len(logins) \/ logins'[k] # logins[k]))
             => /\ storedData' = storedData
                /\ userData'[logins'[k].sid] \in {userData[logins'[k].sid], k}]_vars

\* a silent login went through the whole round trip and the data stored for
\* its session id before is still there, while an interactive login, made
\* after the session id changed, is past its clear
C13_Witness ==
  /\ \E k \in 1..Len(logins) :
       /\ logins[k].prompt = "none"
       /\ logins[k].pc = "resolved"
       /\ logins[k].sid \in storedData
  /\ \E k \in 1..Len(logins) :
       /\ logins[k].prompt # "none"
       /\ logins[k].pc \in {"persist", "flow", "exchange", "resolved"}

\* C14: whatever redirectUrl the caller of ClientAuthentication.login
\* supplies, or none, the login handler is handed the URL of the host's
\* callback-URL accessor, and login does not fail over the redirect URL.
C14_HostRedirectUrlHandedOver ==
  [][\A k \in 1..Len(logins') :
       logins'[k].entry = "session"
       => /\ logins'[k].err # "InvalidRedirectUrl"
          /\ HandlerInvoked(k) => logins'[k].redirectUrl = HostRedirectUrl]_vars

\* C15: when the login handler resolves without a session info,
\* ClientAuthentication.login rejects with "Unexpected login failure: no
\* session info returned" and fetch stays the unauthenticated one.
C15_NoSessionInfoRejects ==
  [][\A k \in 1..Len(logins) :
       (/\ logins[k].entry = "session"
        /\ logins[k].pc = "exchange"
        /\ logins'[k].pc # "exchange"
        /\ logins'[k].result = NoInfo
        /\ logins'[k].err # "RedirectHandlingFailure")
       => /\ logins'[k].pc = "rejected"
          /\ logins'[k].err = "UnexpectedLoginFailure"
          /\ caFetch' = "unauthenticated"]_vars

\* C16: on success ClientAuthentication.login resolves with the session
\* info the login handler produced.
C16_LoginReturnsSessionInfo ==
  [][\A k \in 1..Len(logins) :
       (LoginResolves(k) /\ logins'[k].result # NoInfo)
       => logins'[k].returned = logins'[k].result]_vars

\* C17: logins on the same session id are not serialized: a login whose
\* two writes are done has gone on to the host capability whatever other
\* login is under way, and every completed write of the per-session record
\* replaces what was stored (last writer wins).
C17_LastWriterWins ==
  /\ [](\A k \in 1..Len(logins) :
          (logins[k].w1 = "done" /\ logins[k].w2 = "done")
          => logins[k].launches = 1)
  /\ [][\A k \in 1..Len(logins) :
          (logins[k].w2 = "pending" /\ logins'[k].w2 = "done")
          => userData'[logins[k].sid] = k]_vars

\* both logins of one session id are past persistence, the first still waits
\* for its redirect, and the stored code verifier is the second's
C17_Witness ==
  /\ Len(logins) = 2
  /\ logins[1].sid = logins[2].sid
  /\ logins[1].pc = "flow" /\ logins[1].w2 = "done"
  /\ logins[2].pc = "flow" /\ logins[2].w2 = "done"
  /\ userData[logins[1].sid] = 2

\* C18: for every callback URL that lacks code or state, canHandle returns
\* false and handle rejects without a storage read and without a call of the
\* token endpoint.
C18_MissingParametersRejected ==
  \A c \in 1..Len(rhCalls) :
    (~rhCalls[c].url.code \/ rhCalls[c].url.state = 0)
    => IF rhCalls[c].op = "canHandle"
       THEN rhCalls[c].pc = "resolved" /\ ~rhCalls[c].out
       ELSE /\ rhCalls[c].pc = "rejected"
            /\ rhCalls[c].err = "MissingParameters"
            /\ rhCalls[c].reads = 0
            /\ ~rhCalls[c].token

\* handle rejected a URL with code and without state, canHandle refused a
\* URL with state and without code, and a complete URL got as far as the
\* token endpoint
C18_Witness ==
  /\ \E c \in 1..Len(rhCalls) :
       /\ rhCalls[c].op = "handle"
       /\ rhCalls[c].url.code /\ rhCalls[c].url.state = 0
       /\ rhCalls[c].pc = "rejected"
  /\ \E c \in 1..Len(rhCalls) :
       /\ rhCalls[c].op = "canHandle"
       /\ ~rhCalls[c].url.code /\ rhCalls[c].url.state # 0
       /\ ~rhCalls[c].out
  /\ \E c \in 1..Len(rhCalls) :
       rhCalls[c].op = "handle" /\ rhCalls[c].reads = 1

\* C19: a newly constructed Session has isLoggedIn false whatever login
\* status sessionInfo carries; sessionId and webId are those of sessionInfo
\* when it is given, else sessionId is the sessionId argument when given,
\* else a generated identifier that is not empty.
C19_ConstructedLoggedOut ==
  Ops = 0
  => /\ ~info.isLoggedIn
     /\ ctor.sessionInfo.given
        => /\ info.sessionId = ctor.sessionInfo.sessionId
           /\ info.webId = ctor.sessionInfo.webId
     /\ (~ctor.sessionInfo.given /\ ctor.sessionId # Undefined)
        => info.sessionId = ctor.sessionId
     /\ (~ctor.sessionInfo.given /\ ctor.sessionId = Undefined)
        => info.sessionId # Undefined

\* a Session constructed from a session info that says logged in, with a
\* web id and a session id other than the sessionId argument
C19_Witness ==
  /\ Ops = 0
  /\ ctor.sessionInfo.given /\ ctor.sessionInfo.isLoggedIn
  /\ ctor.sessionInfo.webId # Undefined
  /\ ctor.sessionId # Undefined
  /\ ctor.sessionId # ctor.sessionInfo.sessionId
  /\ info.sessionId = ctor.sessionInfo.sessionId

\* C20: once a login has produced isLoggedIn true on the Session, every
\* emission of SESSION_EXTENDED(n) sets info.expirationDate to the time of
\* the emission plus n*1000, whatever the value was, and touches no other
\* field.
C20_ExtendedOverwrites ==
  [][(emitted'.SESSION_EXTENDED = emitted.SESSION_EXTENDED + 1
      /\ extListeners > 0)
     => info' = [info EXCEPT !.expirationDate =
                   emitted'.extendedAt
                   + emitted'.extendedBy * MillisPerSecond]]_vars

\* after one login with expiration date 5000, one emission of
\* SESSION_EXTENDED(1) at time 1 has moved the expiration date back to 1001
C20_Witness ==
  /\ Len(redirects) = 1 /\ redirects[1].calls = 1
  /\ info.isLoggedIn /\ info.webId = 1
  /\ extListeners = 1
  /\ emitted.SESSION_EXTENDED = 1
  /\ emitted.extendedAt = 1 /\ emitted.extendedBy = 1
  /\ info.expirationDate = 1001

\* ClientAuthentication.logout fails in this step for the logout call i
LogoutFails(i) ==
  /\ logouts[i].handler = "pending"
  /\ logouts'[i].handler = "failed"

\* C21: when ClientAuthentication.logout fails during Session.logout(), the
\* promise of Session.logout rejects, and neither the call nor the failure
\* changes Session.info or emits LOGOUT.
C21_LogoutFailurePropagates ==
  [][/\ \A i \in 1..Len(logouts) :
          (LogoutFails(i) /\ logouts[i].emit)
          => /\ logouts'[i].pc = "failed"
             /\ info' = info
             /\ emitted'.LOGOUT = emitted.LOGOUT
     /\ Len(logouts') > Len(logouts)
          => /\ info' = info
             /\ emitted'.LOGOUT = emitted.LOGOUT]_vars

\* a Session.logout() failed on a session that is logged in: it still is,
\* and no LOGOUT was emitted
C21_Witness ==
  /\ Len(logouts) = 1
  /\ logouts[1].emit /\ logouts[1].pc = "failed"
  /\ info.isLoggedIn
  /\ emitted.LOGIN = 1
  /\ emitted.LOGOUT = 0

\* C22: ClientAuthentication.login rejects with the error the login handler
\* rejected with, and with the error clear rejected with; when clear rejects
\* the login handler is not invoked.
C22_LoginRethrows ==
  \A k \in 1..Len(logins) :
    logins[k].entry = "session"
    => /\ logins[k].herr # "none"
          => /\ logins[k].pc = "rejected"
             /\ logins[k].err = logins[k].herr
       /\ logins[k].clear = "failed"
          => /\ logins[k].pc = "rejected"
             /\ logins[k].err = "ClearFailed"
             /\ logins[k].grant = "unknown"
             /\ logins[k].herr = "none"
             /\ logins[k].w1 = "none" /\ logins[k].w2 = "none"
             /\ logins[k].launches = 0
             /\ ~logins[k].rh

\* one login was rejected by a failing clear, another by the host
\* capability failing inside the login handler
C22_Witness ==
  /\ \E k \in 1..Len(logins) :
       /\ logins[k].entry = "session"
       /\ logins[k].clear = "failed"
       /\ logins[k].promise = "rejected"
  /\ \E k \in 1..Len(logins) :
       /\ logins[k].entry = "session"
       /\ logins[k].herr = "HostFlowFailure"
       /\ logins[k].err = "HostFlowFailure"

\* C23: in WebAuthFlowOidcHandler.handle the redirect handler is invoked
\* exactly when launchWebAuthFlow succeeded, with the URL it yielded; when
\* launchWebAuthFlow rejects, handle rejects with that error and the
\* redirect handler is not invoked.
C23_RedirectHandlerIffFlowSucceeded ==
  \A k \in 1..Len(logins) :
    /\ logins[k].rh <=> logins[k].flow = "ok"
    /\ logins[k].rh => logins[k].rhUrl = logins[k].flowUrl
    /\ logins[k].flow = "failed"
       => /\ logins[k].pc = "rejected"
          /\ logins[k].err = "HostFlowFailure"
          /\ ~logins[k].rh

\* one flow ended at a URL without code, which the redirect handler was
\* called with, and another flow failed
C23_Witness ==
  /\ \E k \in 1..Len(logins) :
       /\ logins[k].flow = "ok"
       /\ ~logins[k].flowUrl.code /\ logins[k].flowUrl.state # 0
       /\ logins[k].rh /\ logins[k].rhUrl = logins[k].flowUrl
  /\ \E k \in 1..Len(logins) :
       logins[k].flow = "failed" /\ logins[k].pc = "rejected"

C25_UpdatedBeforeLoginEmitted ==
  /\ \A v \in emitted.loginSeen : v.isLoggedIn /\ v.fetch = "bound"
  /\ emitted.LOGIN > 0 => emitted.loginSeen # {}

\* a login was fulfilled by a completion that logged the session in, on a
\* Session whose fetch was the delegating one until then
C25_Witness ==
  /\ emitted.LOGIN = 1
  /\ emitted.loginSeen = {[isLoggedIn |-> TRUE, fetch |-> "bound"]}
  /\ Len(logouts) = 0
  /\ \E k \in 1..Len(logins) : logins[k].promise = "fulfilled"
  /\ info.isLoggedIn

\* C26: on a Session on which no login has produced isLoggedIn true (no
\* LOGIN was emitted), an emission of SESSION_EXTENDED leaves every field
\* of Session.info as it is.
C26_ExtendedIgnoredBeforeLogin ==
  [][(emitted'.SESSION_EXTENDED = emitted.SESSION_EXTENDED + 1
      /\ emitted.LOGIN = 0)
     => info' = info]_vars

\* SESSION_EXTENDED was emitted on a Session whose only login completion
\* reported isLoggedIn false: there is still no expiration date
C26_Witness ==
  /\ emitted.SESSION_EXTENDED >= 1
  /\ emitted.LOGIN = 0
  /\ extListeners = 0
  /\ Len(redirects) = 1 /\ redirects[1].calls = 1
  /\ info \in ResultInfos
  /\ info.expirationDate = Undefined

\* C27: every Session.login call makes one ClientAuthentication.login call,
\* with the info.sessionId of the moment, the Session's event bus, and the
\* token type of the options when they give one, else "DPoP".
C27_LoginCallArguments ==
  [][loginSlot' # loginSlot
     => /\ Len(logins') = Len(logins) + 1
        /\ loginSlot' = Len(logins')
        /\ logins'[loginSlot'].entry = "session"
        /\ logins'[loginSlot'].sid = info.sessionId
        /\ logins'[loginSlot'].bus = "Session.events"
        /\ logins'[loginSlot'].tokenType =
             IF logins'[loginSlot'].opts.tokenType = "undefined"
             THEN "DPoP"
             ELSE logins'[loginSlot'].opts.tokenType]_vars

\* one login asked for Bearer tokens and one gave no token type, on a
\* Session constructed with a session id
C27_Witness ==
  /\ ctor.sessionId = OtherSessionId
  /\ \E k \in 1..Len(logins) :
       /\ logins[k].opts.tokenType = "Bearer"
       /\ logins[k].tokenType = "Bearer"
       /\ logins[k].sid = OtherSessionId
  /\ \E k \in 1..Len(logins) :
       /\ logins[k].opts.tokenType = "undefined"
       /\ logins[k].tokenType = "DPoP"

\* C28: the login handler is given the client name of the options when
\* there is one, and the client id in its place when there is none.
C28_ClientNameFallsBackToClientId ==
  \A k \in 1..Len(logins) :
    logins[k].entry = "session"
    => IF logins[k].grant = "unknown"
       THEN logins[k].clientName = "unset"
       ELSE logins[k].clientName =
              IF logins[k].opts.clientName # "undefined"
              THEN logins[k].opts.clientName
              ELSE logins[k].opts.clientId

\* the handler got the client id of a login without client name, and the
\* client name of a login that has both
C28_Witness ==
  /\ \E k \in 1..Len(logins) :
       /\ logins[k].opts.clientName = "undefined"
       /\ logins[k].clientName = "coolApp"
  /\ \E k \in 1..Len(logins) :
       /\ logins[k].opts.clientId = "coolApp"
       /\ logins[k].clientName = "Cool App Name"

\* C29: the authorization request carries the prompt "consent" when the
\* login options have no prompt, and the prompt of the options otherwise,
\* "none" included; every login that got past the guard has built one.
C29_PromptDefaultsToConsent ==
  \A k \in 1..Len(logins) :
    /\ logins[k].w1 # "none" => logins[k].reqPrompt # "unset"
    /\ logins[k].reqPrompt # "unset"
       => logins[k].reqPrompt =
            IF logins[k].prompt = "undefined" THEN "consent"
            ELSE logins[k].prompt

\* one request was built with prompt "none" and one with the default
C29_Witness ==
  /\ \E k \in 1..Len(logins) :
       logins[k].prompt = "none" /\ logins[k].reqPrompt = "none"
  /\ \E k \in 1..Len(logins) :
       logins[k].prompt = "undefined" /\ logins[k].reqPrompt = "consent"

\* C30 as stated: every attempt that passes the precondition has invoked
\* launchWebAuthFlow exactly once by the time handle has settled, whatever
\* the outcome.
C30_LaunchedOnceWhateverOutcome ==
  \A k \in 1..Len(logins) :
    (~PreconditionFails(logins[k])
     /\ logins[k].pc \in {"resolved", "rejected"})
    => logins[k].launches = 1

\* C30 amended: an attempt that passes the precondition invokes
\* launchWebAuthFlow once, with the authorization URL and interactive true,
\* when both storage writes have completed, and never when one of them has
\* failed; no attempt invokes it more than once, and an attempt whose flow
\* has failed is rejected without another invocation.
C30_LaunchedOnceWhenPersisted ==
  \A k \in 1..Len(logins) :
    /\ logins[k].launches <= 1
    /\ logins[k].launches = 1
       => logins[k].launchArgs = [url |-> "targetUrl", interactive |-> TRUE]
    /\ (logins[k].w1 = "done" /\ logins[k].w2 = "done")
       => logins[k].launches = 1
    /\ (logins[k].w1 = "failed" \/ logins[k].w2 = "failed")
       => logins[k].launches = 0 /\ logins[k].pc = "rejected"
    /\ logins[k].flow = "failed"
       => logins[k].launches = 1 /\ logins[k].pc = "rejected"

\* the flow of one attempt failed after its single launch, and another
\* attempt, which passed the precondition, was rejected over a storage
\* write without any launch
C30_Witness ==
  /\ \E k \in 1..Len(logins) :
       /\ logins[k].flow = "failed"
       /\ logins[k].launches = 1
       /\ logins[k].pc = "rejected"
  /\ \E k \in 1..Len(logins) :
       /\ ~PreconditionFails(logins[k])
       /\ logins[k].w2 = "failed"
       /\ logins[k].pc = "rejected"
       /\ logins[k].launches = 0

C32_SessionFromPersistedState ==
  [][\A c \in 1..Len(rhCalls) :
       (rhCalls[c].pc = "lookup" /\ rhCalls'[c].pc # "lookup")
       => LET k == rhCalls[c].url.state
          IN IF /\ k <= Len(logins)
                /\ logins[k].w1 = "done"
                /\ userData[logins[k].sid] # 0
             THEN /\ rhCalls'[c].pc = "token"
                  /\ rhCalls'[c].sid = logins[k].sid
                  /\ rhCalls'[c].verifier = userData[logins[k].sid]
             ELSE /\ rhCalls'[c].pc = "rejected"
                  /\ rhCalls'[c].err = "NoMatchingSession"
                  /\ ~rhCalls'[c].token]_vars

\* the callback of an attempt made for the other session id was taken to
\* that session, and a callback whose state nothing is persisted for was
\* rejected
C32_Witness ==
  /\ \E c \in 1..Len(rhCalls) :
       /\ rhCalls[c].token
       /\ rhCalls[c].sid = OtherSessionId
       /\ logins[rhCalls[c].url.state].sid = OtherSessionId
  /\ \E c \in 1..Len(rhCalls) :
       rhCalls[c].err = "NoMatchingSession"

\* C33: no event cascade.  An emission of ERROR or SESSION_EXPIRED makes
\* one logout call and no other emission; the logout it started emits
\* nothing and starts nothing when it settles, whether the logout
\* collaborator succeeds or fails; and no step emits more than one event or
\* starts more than one logout.
C33_NoEventCascade ==
  [][/\ \A i \in 1..Len(logouts) :
          (~logouts[i].emit /\ logouts'[i] # logouts[i])
          => /\ emitted' = emitted
             /\ Len(logouts') = Len(logouts)
     /\ (emitted'.ERROR + emitted'.SESSION_EXPIRED
           # emitted.ERROR + emitted.SESSION_EXPIRED)
        => /\ emitted'.ERROR + emitted'.SESSION_EXPIRED
                = emitted.ERROR + emitted.SESSION_EXPIRED + 1
           /\ emitted'.LOGOUT = emitted.LOGOUT
           /\ emitted'.LOGIN = emitted.LOGIN
           /\ Len(logouts') = Len(logouts) + 1
     /\ Len(logouts') <= Len(logouts) + 1]_vars

\* the logout started by an ERROR event failed and the one started by
\* SESSION_EXPIRED completed: two emissions, two logout calls, no LOGOUT
C33_Witness ==
  /\ emitted.ERROR = 1 /\ emitted.SESSION_EXPIRED = 1
  /\ Len(logouts) = 2
  /\ \A i \in 1..2 : ~logouts[i].emit
  /\ \E i \in 1..2 : logouts[i].pc = "failed"
  /\ \E i \in 1..2 : logouts[i].pc = "done"
  /\ emitted.LOGOUT = 0

\* the redirect round trip j ends in this step with a failure: afterRedirect
\* is called with something other than a result of the redirect handler
RedirectFails(j) ==
  /\ redirects[j].pc \in {"flow", "exchange"}
  /\ redirects'[j].calls = redirects[j].calls + 1
  /\ info' \notin ResultInfos

\* C34: info.sessionId is stable: a login that fails, over the host
\* capability or over the redirect handling, leaves info.sessionId as it
\* was before.
C34_SessionIdStableOnFailure ==
  [][/\ \A k \in 1..Len(logins') :
          LoginRejects(k) => info'.sessionId = info.sessionId
     /\ \A j \in 1..Len(redirects) :
          RedirectFails(j) => info'.sessionId = info.sessionId]_vars

\* no login round trip and no logout is in progress
Quiescent ==
  /\ \A k \in 1..Len(logins) : logins[k].pc \in {"resolved", "rejected"}
  /\ \A j \in 1..Len(redirects) : redirects[j].pc = "done"
  /\ \A i \in 1..Len(logouts) : logouts[i].pc \in {"done", "failed"}

\* C35: whenever info.isLoggedIn is false and no login or logout is in
\* progress, Session.fetch performs unauthenticated requests: it is not the
\* authenticated fetch of an earlier login.
C35_LoggedOutFetchUnauthenticated ==
  (~info.isLoggedIn /\ Quiescent)
  => /\ sessionFetch = "delegate"
     /\ caFetch = "unauthenticated"

\* redirect j completes in this step with a logged-in result
RedirectLogsIn(j) ==
  /\ j \in 1..Len(redirects)
  /\ redirects[j].pc = "exchange"
  /\ redirects'[j].calls = redirects[j].calls + 1
  /\ emitted'.LOGIN = emitted.LOGIN + 1
  /\ info'.isLoggedIn

\* C36: once a Session.logout() has resolved, a login that was already
\* pending when that logout was called does not set isLoggedIn to true; and
\* a logout that resumes after a login has completed since its call does not
\* set isLoggedIn back to false.
C36_LogoutLoginOrdering ==
  [][/\ \A j \in 1..Len(redirects) :
          RedirectLogsIn(j)
          => ~\E i \in 1..Len(logouts) :
                /\ logouts[i].emit
                /\ logouts[i].pc = "done"
                /\ j <= logouts[i].before
     /\ \A i \in 1..Len(logouts) :
          (LogoutCompletes(i) /\ emitted.LOGIN > logouts[i].seen
             /\ info.isLoggedIn)
          => info'.isLoggedIn]_vars

\* C37: after a logout or auto-logout that followed a successful login, and
\* while info.isLoggedIn is false, an emission of SESSION_EXTENDED leaves
\* info.expirationDate as it is; and after several successful logins one
\* emission updates the expiration date as one effect: the result is the time
\* of the emission plus n*1000.
C37_ExtendedAfterLogout ==
  [][emitted'.SESSION_EXTENDED = emitted.SESSION_EXTENDED + 1
     => /\ (/\ ~info.isLoggedIn
            /\ \E i \in 1..Len(logouts) :
                  logouts[i].pc = "done" /\ logouts[i].seen > 0)
           => info'.expirationDate = info.expirationDate
        /\ extListeners > 1
           => info'.expirationDate =
                emitted'.extendedAt
                + emitted'.extendedBy * MillisPerSecond]_vars

\* logins issued one after the other on each session id: a login, through
\* the Session (on its session id) or at the login handler (for either of
\* two session ids), is started only when no attempt on its session id is
\* under way; logins on different session ids may overlap, storage writes
\* may fail, and the Session may be logged out at any time
NextSequential ==
  \/ \E p \in Prompts :
        /\ startsAlone(info.sessionId)
        /\ SessionLogin(p, "valid", "authorization_code", PlainOptions)
  \/ \E sid \in {InitialSessionId, OtherSessionId} :
        /\ startsAlone(sid)
        /\ HandleCall(sid, "valid", "authorization_code")
  \/ \E k \in 1..MaxOps, ok \in BOOLEAN :
        ClearReturn(k, ok, "authorization_code")
  \/ \E k \in 1..MaxOps, ok \in BOOLEAN : WriteState(k, ok)
  \/ \E k \in 1..MaxOps, ok \in BOOLEAN : WriteUser(k, ok)
  \/ \E k \in 1..MaxLogins, ok \in BOOLEAN :
        FlowReturn(k, ok, [code |-> TRUE, state |-> k])
  \/ \E k \in 1..MaxOps, r \in HandlerResults : HandleResolve(k, r)
  \/ \E k \in 1..MaxOps : HandleReject(k)
  \/ SessionLogout
  \/ \E i \in 1..MaxOps, ok \in BOOLEAN : LogoutHandlerReturn(i, ok)

SpecSequential == Init /\ [][NextSequential]_vars

\* redirectHandler.handle is called for attempt k in this step
RedirectHandlerRuns(k) ==
  /\ logins[k].pc = "flow"
  /\ logins'[k].pc = "exchange"

RestoredCtorArgs ==
  {a \in CtorArgs : /\ a.sessionId = Undefined
                    /\ a.sessionInfo.given
                    /\ a.sessionInfo.sessionId = OtherSessionId
                    /\ a.sessionInfo.webId = 1
                    /\ a.sessionInfo.clientAppId = 1}

\* everything that happens to the login status of a Session: its
\* construction from a session info, Session.login calls that stay pending
\* or run to their end, redirect callbacks, logouts, and the emission of
\* every event the Session listens for
NextStatus ==
  \/ \E args \in RestoredCtorArgs : NewSession(args)
  \/ SessionLogin("none", "valid", "authorization_code", PlainOptions)
  \/ \E k \in 1..MaxOps : WriteState(k, TRUE)
  \/ \E k \in 1..MaxOps : WriteUser(k, TRUE)
  \/ \E k \in 1..MaxLogins, ok \in BOOLEAN :
        FlowReturn(k, ok, [code |-> TRUE, state |-> k])
  \/ \E k \in 1..MaxOps, r \in HandlerResults : HandleResolve(k, r)
  \/ \E k \in 1..MaxOps : HandleReject(k)
  \/ RedirectorRedirect
  \/ \E j \in 1..MaxOps, ok \in BOOLEAN : RedirectorFlowReturn(j, ok)
  \/ \E j \in 1..MaxOps, r \in ResultInfos :
        RedirectorHandleResolve(j, r, FALSE)
  \/ \E j \in 1..MaxOps : RedirectorHandleReject(j)
  \/ SessionLogout
  \/ EmitSessionExpired
  \/ EmitError("error")
  \/ \E i \in 1..MaxOps, ok \in BOOLEAN : LogoutHandlerReturn(i, ok)
  \/ \E n \in ExpiresIn, t \in Times : EmitSessionExtended(n, t)

SpecStatus == Init /\ [][NextStatus]_vars

\* C39: Session.info.isLoggedIn is false on a new Session and goes from
\* false to true only in the step in which a login round trip completes with
\* a result that reports isLoggedIn true; no construction, logout, failed
\* login, event emission or pending login sets it.
C39_LoggedInOnlyByLogin ==
  /\ ~info.isLoggedIn
  /\ [][(info'.isLoggedIn /\ ~info.isLoggedIn)
        => \E j \in 1..Len(redirects) :
              /\ RedirectLogsIn(j)
              /\ info' \in ResultInfos]_vars

\* a Session that was logged out and has a Session.login call still
\* pending is logged in by the completion of a round trip
C39_Witness ==
  /\ info.isLoggedIn
  /\ emitted.LOGIN = 1
  /\ \E i \in 1..Len(logouts) : logouts[i].pc = "done"
  /\ \E k \in 1..Len(logins) : logins[k].pc = "flow"
  /\ \E j \in 1..Len(redirects) :
        redirects[j].pc = "done" /\ redirects[j].calls = 1

====
